---- MODULE Spec2Model ----
(***************************************************************************)
(* Disk-block allocation over a fixed pool of blocks, in two               *)
(* representations: a bitmap with a first-fit contiguous scan              *)
(* (allocate_contiguous / free_contiguous) and a linked free list          *)
(* (get_one_block / get_blocks / release_blocks).  Both allocators are     *)
(* driven in lock step by the same sequence of reset, allocate(need) and   *)
(* free-of-a-live-allocation calls, the way the speed tests drive them.    *)
(***************************************************************************)
EXTENDS Integers, Sequences, FiniteSets, TLC

\* ------------------------------------------------------------------------
\* Program constants
\* ------------------------------------------------------------------------

\* #define BLOCK_COUNT 64 (bitmap) and #define MAX_BLOCKS 64 (linked list)
BLOCK_COUNT == 64

MAX_BLOCKS == 64

\* #define BITS_IN_BYTE 8
BITS_IN_BYTE == 8

\* #define NO_BLOCK -1
NO_BLOCK == -1

\* ------------------------------------------------------------------------
\* Bounds of the model
\* ------------------------------------------------------------------------

\* Pool size of the scaled-down specification Spec (the program's own pool
\* size, BLOCK_COUNT, is used by ScenarioSpec).
Capacity == 3

\* Pool size of PatternSpec, which starts from every free/used pattern.
PatternBlocks == 10

\* Number of calls after a reset that the call log keeps.
MaxLog == 4

\* Request sizes tried by ScenarioSpec on the 64-block pool.
ScenarioNeeds == {1, 5, 12, 20}

\* FragSpec runs the fragmentation drivers scaled down: the pool size (64 in
\* the program), the number of files created (20), the largest file size
\* (5), the number of files deleted (5) and the size of the big file (12).
FragBlocks == 5

FragFiles == 3

FragMaxSize == 2

FragDeletes == 3

FragBig == 3

VARIABLES
    blocks,          \* pool size in force (BLOCK_COUNT / MAX_BLOCKS of the build)
    allocation_map,  \* uint8_t allocation_map[MAP_SIZE], byte index -> 0..255
    storage,         \* storage[i].nxt, block index -> block index or NO_BLOCK
    free_start,      \* head of the free list or NO_BLOCK
    files,           \* live allocations: the caller's (size, bitmap start, list head)
    last,            \* the last call and what it returned
    pre,             \* allocator state immediately before the last call
    freed,           \* whether a free call was made since the last reset
    log              \* ScenarioSpec: the calls since the last reset

vars == <<blocks, allocation_map, storage, free_start, files, last, pre, freed, log>>

\* ------------------------------------------------------------------------
\* Bitmap allocator
\* ------------------------------------------------------------------------

\* #define MAP_SIZE ((BLOCK_COUNT + BITS_IN_BYTE - 1) / BITS_IN_BYTE)
MAP_SIZE(n) == (n + BITS_IN_BYTE - 1) \div BITS_IN_BYTE

\* (byte >> bi) & 1
BitOf(byte, bi) == (byte \div 2 ^ bi) % 2

\* byte |= (1 << bi), on a uint8_t
OrBit(byte, bi) == IF BitOf(byte, bi) = 0 THEN byte + 2 ^ bi ELSE byte

\* byte &= ~(1 << bi), on a uint8_t
ClearBit(byte, bi) == IF BitOf(byte, bi) = 1 THEN byte - 2 ^ bi ELSE byte

\* memset(allocation_map, 0, MAP_SIZE)
map_init(n) == [by \in 0..(MAP_SIZE(n) - 1) |-> 0]

\* check_block_status: the bit of block block_num
check_block_status(map, block_num) ==
    BitOf(map[block_num \div BITS_IN_BYTE], block_num % BITS_IN_BYTE)

\* Faulty variant: the run is marked one block short.
RECURSIVE mark_short(_, _, _, _)
mark_short(map, begin, need, j) ==
    IF j >= need - 1 THEN map
    ELSE LET blk == begin + j
             b   == blk \div BITS_IN_BYTE
             bt  == blk % BITS_IN_BYTE
         IN  mark_short([map EXCEPT ![b] = OrBit(map[b], bt)], begin, need, j + 1)

\* The inner loop of allocate_contiguous: for (j = 0; j < need; j++) set bit
RECURSIVE allocate_contiguous_mark(_, _, _, _)
allocate_contiguous_mark(map, begin, need, j) ==
    IF j >= need THEN map
    ELSE LET blk == begin + j
             b   == blk \div BITS_IN_BYTE
             bt  == blk % BITS_IN_BYTE
         IN  allocate_contiguous_mark(
                 [map EXCEPT ![b] = OrBit(map[b], bt)], begin, need, j + 1)

\* Faulty variant: a used block does not reset the run that is being counted.
RECURSIVE scan_no_reset(_, _, _, _, _, _)
scan_no_reset(map, need, n, i, seq, begin) ==
    IF i >= n THEN [ret |-> -1, map |-> map]
    ELSE IF check_block_status(map, i) = 0
         THEN LET b == IF seq = 0 THEN i ELSE begin
                  s == seq + 1
              IN  IF s = need
                  THEN [ret |-> b, map |-> allocate_contiguous_mark(map, b, need, 0)]
                  ELSE scan_no_reset(map, need, n, i + 1, s, b)
         ELSE scan_no_reset(map, need, n, i + 1, seq, begin)

\* Faulty variant: the scan keeps the last run that fits instead of the first.
RECURSIVE scan_last_fit(_, _, _, _, _, _)
scan_last_fit(map, need, n, i, seq, begin) ==
    LET Fits(s) == s + need <= n /\ \A k \in s..(s + need - 1) : check_block_status(map, k) = 0
        starts  == {s \in 0..(n - 1) : Fits(s)}
    IN  IF starts = {} THEN [ret |-> -1, map |-> map]
        ELSE LET b == CHOOSE s \in starts : \A t \in starts : t <= s
             IN  [ret |-> b, map |-> allocate_contiguous_mark(map, b, need, 0)]

\* The outer loop of allocate_contiguous: for (i = 0; i < BLOCK_COUNT; i++)
RECURSIVE allocate_contiguous_scan(_, _, _, _, _, _)
allocate_contiguous_scan(map, need, n, i, seq, begin) ==
    IF i >= n THEN [ret |-> -1, map |-> map]
    ELSE IF BitOf(map[i \div BITS_IN_BYTE], i % BITS_IN_BYTE) = 0
         THEN LET b == IF seq = 0 THEN i ELSE begin
                  s == seq + 1
              IN  IF s = need
                  THEN [ret |-> b, map |-> allocate_contiguous_mark(map, b, need, 0)]
                  ELSE allocate_contiguous_scan(map, need, n, i + 1, s, b)
         ELSE allocate_contiguous_scan(map, need, n, i + 1, 0, -1)

\* Faulty variant: the upper bound check rejects a request for the whole pool.
allocate_contiguous_strict(map, need, n) ==
    IF need <= 0 \/ need >= n THEN [ret |-> -1, map |-> map]
    ELSE allocate_contiguous_scan(map, need, n, 0, 0, -1)

\* Faulty variant: a request larger than the pool is cut down to the pool size.
allocate_contiguous_clamp(map, need, n) ==
    IF need <= 0 THEN [ret |-> -1, map |-> map]
    ELSE allocate_contiguous_scan(map, IF need > n THEN n ELSE need, n, 0, 0, -1)

\* int allocate_contiguous(int need): the start of the run or -1, and the map
allocate_contiguous(map, need, n) ==
    IF need <= 0 \/ need > n THEN [ret |-> -1, map |-> map]
    ELSE allocate_contiguous_scan(map, need, n, 0, 0, -1)

\* Faulty variant: the loop stops one block early.
RECURSIVE free_loop_short(_, _, _, _)
free_loop_short(map, start, cnt, i) ==
    IF i >= cnt - 1 THEN map
    ELSE LET blk == start + i
             by  == blk \div BITS_IN_BYTE
             bi  == blk % BITS_IN_BYTE
         IN  free_loop_short(
                 [map EXCEPT ![by] = ClearBit(map[by], bi)], start, cnt, i + 1)

\* Faulty variant: the bit is flipped (^=) instead of cleared.
RECURSIVE free_loop_toggle(_, _, _, _)
free_loop_toggle(map, start, cnt, i) ==
    IF i >= cnt THEN map
    ELSE LET blk == start + i
             by  == blk \div BITS_IN_BYTE
             bi  == blk % BITS_IN_BYTE
             new == IF BitOf(map[by], bi) = 1
                    THEN ClearBit(map[by], bi) ELSE OrBit(map[by], bi)
         IN  free_loop_toggle([map EXCEPT ![by] = new], start, cnt, i + 1)

\* The loop of free_contiguous: for (i = 0; i < cnt; i++) clear bit
RECURSIVE free_contiguous_loop(_, _, _, _)
free_contiguous_loop(map, start, cnt, i) ==
    IF i >= cnt THEN map
    ELSE LET blk == start + i
             by  == blk \div BITS_IN_BYTE
             bi  == blk % BITS_IN_BYTE
         IN  free_contiguous_loop(
                 [map EXCEPT ![by] = ClearBit(map[by], bi)], start, cnt, i + 1)

\* void free_contiguous(int start, int cnt)
free_contiguous(map, start, cnt) == free_contiguous_loop(map, start, cnt, 0)

\* ------------------------------------------------------------------------
\* Linked-list allocator.  A list state is [storage, free_start].
\* ------------------------------------------------------------------------

\* Faulty variant: the blocks are linked in descending order, n-1 -> ... -> 0.
setup_descending(n) ==
    [storage    |-> [idx \in 0..(n - 1) |-> IF idx > 0 THEN idx - 1 ELSE NO_BLOCK],
     free_start |-> n - 1]

\* void setup(): 0 -> 1 -> ... -> n-1 -> NO_BLOCK, free_start = 0
setup(n) ==
    [storage    |-> [idx \in 0..(n - 1) |-> IF idx < n - 1 THEN idx + 1 ELSE NO_BLOCK],
     free_start |-> 0]

\* Faulty variant: the taken block is returned but the free head does not advance.
get_one_block_stuck(st) ==
    IF st.free_start = NO_BLOCK
    THEN [ret |-> NO_BLOCK, storage |-> st.storage, free_start |-> st.free_start]
    ELSE LET taken == st.free_start
         IN  [ret        |-> taken,
              storage    |-> st.storage,
              free_start |-> st.free_start]

\* Faulty variant: the taken block keeps its link into the free list.
get_one_block_keep_next(st) ==
    IF st.free_start = NO_BLOCK
    THEN [ret |-> NO_BLOCK, storage |-> st.storage, free_start |-> st.free_start]
    ELSE LET taken == st.free_start
         IN  [ret        |-> taken,
              storage    |-> st.storage,
              free_start |-> st.storage[taken]]

\* int get_one_block(): pops the head of the free list
get_one_block(st) ==
    IF st.free_start = NO_BLOCK
    THEN [ret |-> NO_BLOCK, storage |-> st.storage, free_start |-> st.free_start]
    ELSE LET taken == st.free_start
         IN  [ret        |-> taken,
              storage    |-> [st.storage EXCEPT ![taken] = NO_BLOCK],
              free_start |-> st.storage[taken]]

\* Faulty variant: a failed request keeps the blocks it took.
get_blocks_rollback_none(st, first) == st

\* Faulty variant: the taken chain is put back in one piece, in its old order.
get_blocks_rollback_whole(st, first) ==
    IF first = NO_BLOCK THEN st
    ELSE [storage |-> st.storage, free_start |-> first]

\* The rollback loop of get_blocks: while (first != NO_BLOCK) push first
RECURSIVE get_blocks_rollback(_, _)
get_blocks_rollback(st, first) ==
    IF first = NO_BLOCK THEN st
    ELSE LET nxt == st.storage[first]
         IN  get_blocks_rollback(
                 [storage    |-> [st.storage EXCEPT ![first] = st.free_start],
                  free_start |-> first],
                 nxt)

\* Faulty variant: each new block is linked in front of the chain, so the
\* chain comes out in reverse and the handle is the block taken last.
RECURSIVE get_blocks_loop_prepend(_, _, _, _, _)
get_blocks_loop_prepend(st, num, cnt, first, prev) ==
    IF cnt >= num
    THEN [ret |-> first, storage |-> st.storage, free_start |-> st.free_start]
    ELSE LET g  == get_one_block(st)
             gs == [storage |-> g.storage, free_start |-> g.free_start]
         IN  IF g.ret = NO_BLOCK
             THEN LET r == get_blocks_rollback(gs, first)
                  IN  [ret |-> NO_BLOCK, storage |-> r.storage,
                       free_start |-> r.free_start]
             ELSE get_blocks_loop_prepend(
                      [storage    |-> [g.storage EXCEPT ![g.ret] = first],
                       free_start |-> g.free_start],
                      num, cnt + 1, g.ret, g.ret)

\* Faulty variant: the loop runs once too often (cnt <= num).
RECURSIVE get_blocks_loop_one_more(_, _, _, _, _)
get_blocks_loop_one_more(st, num, cnt, first, prev) ==
    IF cnt > num
    THEN [ret |-> first, storage |-> st.storage, free_start |-> st.free_start]
    ELSE LET g  == get_one_block(st)
             gs == [storage |-> g.storage, free_start |-> g.free_start]
         IN  IF g.ret = NO_BLOCK
             THEN LET r == get_blocks_rollback(gs, first)
                  IN  [ret |-> NO_BLOCK, storage |-> r.storage,
                       free_start |-> r.free_start]
             ELSE LET linked == IF prev # NO_BLOCK
                                THEN [g.storage EXCEPT ![prev] = g.ret]
                                ELSE g.storage
                      first2 == IF prev # NO_BLOCK THEN first ELSE g.ret
                  IN  get_blocks_loop_one_more(
                          [storage |-> linked, free_start |-> g.free_start],
                          num, cnt + 1, first2, g.ret)

\* The loop of get_blocks: for (cnt = 0; cnt < num; cnt++)
RECURSIVE get_blocks_loop(_, _, _, _, _)
get_blocks_loop(st, num, cnt, first, prev) ==
    IF cnt >= num
    THEN [ret |-> first, storage |-> st.storage, free_start |-> st.free_start]
    ELSE LET g  == get_one_block(st)
             gs == [storage |-> g.storage, free_start |-> g.free_start]
         IN  IF g.ret = NO_BLOCK
             THEN LET r == get_blocks_rollback(gs, first)
                  IN  [ret |-> NO_BLOCK, storage |-> r.storage,
                       free_start |-> r.free_start]
             ELSE LET linked == IF prev # NO_BLOCK
                                THEN [g.storage EXCEPT ![prev] = g.ret]
                                ELSE g.storage
                      first2 == IF prev # NO_BLOCK THEN first ELSE g.ret
                  IN  get_blocks_loop(
                          [storage |-> linked, free_start |-> g.free_start],
                          num, cnt + 1, first2, g.ret)

\* int get_blocks(int num): the head of the new chain or NO_BLOCK
get_blocks(st, num) ==
    IF num <= 0
    THEN [ret |-> NO_BLOCK, storage |-> st.storage, free_start |-> st.free_start]
    ELSE get_blocks_loop(st, num, 0, NO_BLOCK, NO_BLOCK)

\* The walk of release_blocks: while (storage[cur].nxt != NO_BLOCK)
\*   { last = cur; cur = storage[cur].nxt; }   -- the value of last at exit
RECURSIVE release_blocks_walk(_, _, _)
release_blocks_walk(stor, cur, lst) ==
    IF stor[cur] # NO_BLOCK
    THEN release_blocks_walk(stor, stor[cur], cur)
    ELSE lst

\* void release_blocks(int begin)
release_blocks(st, begin) ==
    IF begin = NO_BLOCK THEN st
    ELSE LET lst == release_blocks_walk(st.storage, begin, begin)
         IN  [storage    |-> [st.storage EXCEPT ![lst] = st.free_start],
              free_start |-> begin]

\* ------------------------------------------------------------------------
\* Observers: the free/used status of the blocks
\* ------------------------------------------------------------------------

Blocks == 0..(blocks - 1)

\* The blocks visited from head along nxt, in order, up to the sentinel (at
\* most fuel of them: a walk that has not ended by then is cut).
RECURSIVE ChainSeq(_, _, _)
ChainSeq(stor, head, fuel) ==
    IF head = NO_BLOCK \/ fuel = 0 THEN <<>>
    ELSE <<head>> \o ChainSeq(stor, stor[head], fuel - 1)

Range(s) == {s[k] : k \in 1..Len(s)}

\* The free list, in order, and the set of free blocks of a list state
FreeSeq(stor, head) == ChainSeq(stor, head, blocks + 1)

FreeBlocks(stor, head) == Range(FreeSeq(stor, head))

\* The blocks on the chain of the allocation with handle h
ChainBlocks(stor, h) == Range(ChainSeq(stor, h, blocks + 1))

\* The blocks whose bit is 0 / 1 in a bitmap
MapFree(map) == {i \in Blocks : check_block_status(map, i) = 0}

MapUsed(map) == {i \in Blocks : check_block_status(map, i) = 1}

\* A walk from head along the nxt fields meets the sentinel after at most
\* capacity blocks
WalkEnds(stor, head) == Len(ChainSeq(stor, head, blocks + 1)) <= blocks

\* void show_map(): the bit of every block, in block order
show_map(map, n) == [i \in 0..(n - 1) |-> check_block_status(map, i)]

\* The inner walk of display_state: is block i met on the way from cur to
\* the sentinel
RECURSIVE display_state_isfree(_, _, _)
display_state_isfree(stor, cur, i) ==
    IF cur = NO_BLOCK THEN FALSE
    ELSE IF cur = i THEN TRUE
    ELSE display_state_isfree(stor, stor[cur], i)

\* void display_state(): 0 for a block on the free list, 1 for any other
display_state(stor, head, n) ==
    [i \in 0..(n - 1) |-> IF display_state_isfree(stor, head, i) THEN 0 ELSE 1]

\* ------------------------------------------------------------------------
\* The calls.  Both drivers keep, for every request, its size and the handle
\* each allocator returned (allocs[i], sizes[i]); files holds the entries
\* whose handle is still live in at least one of the two.
\* ------------------------------------------------------------------------

ListState == [storage |-> storage, free_start |-> free_start]

Snapshot == [map |-> allocation_map, storage |-> storage, free_start |-> free_start]

ResetRec == [op |-> "reset", need |-> 0, bm |-> -1, ll |-> NO_BLOCK]

\* A pool of n blocks on which no call was made yet, its bitmap being map
\* and its free list the one setup() builds
StartPool(n, map) ==
    /\ blocks = n
    /\ allocation_map = map
    /\ storage = setup(n).storage
    /\ free_start = setup(n).free_start
    /\ files = {}
    /\ last = ResetRec
    /\ pre = [map |-> map, storage |-> setup(n).storage,
              free_start |-> setup(n).free_start]
    /\ freed = FALSE
    /\ log = <<>>

\* The state the drivers start from: every test calls map_init() / setup()
\* before its first request, so the zero-initialised globals (free_start =
\* NO_BLOCK, every nxt = 0) are never operated on.
InitPool(n) == StartPool(n, map_init(n))

\* allocs[i] = allocate_contiguous(need) and allocs[i] = get_blocks(need)
AllocateOp(need) ==
    LET rb  == allocate_contiguous(allocation_map, need, blocks)
        rl  == get_blocks(ListState, need)
        rec == [op |-> "alloc", need |-> need, bm |-> rb.ret, ll |-> rl.ret]
    IN  /\ allocation_map' = rb.map
        /\ storage' = rl.storage
        /\ free_start' = rl.free_start
        /\ files' = IF rb.ret = -1 /\ rl.ret = NO_BLOCK
                    THEN files
                    ELSE files \cup {[need |-> need, bm |-> rb.ret, ll |-> rl.ret]}
        /\ last' = rec
        /\ pre' = Snapshot
        /\ UNCHANGED <<blocks, freed>>

\* if (allocs[i] != -1) free_contiguous(allocs[i], sizes[i]);
\* release_blocks(allocs[i]) (a no-op on NO_BLOCK)
FreeOp(f) ==
    LET rl == release_blocks(ListState, f.ll)
    IN  /\ allocation_map' = IF f.bm # -1
                             THEN free_contiguous(allocation_map, f.bm, f.need)
                             ELSE allocation_map
        /\ storage' = rl.storage
        /\ free_start' = rl.free_start
        /\ files' = files \ {f}
        /\ last' = [op |-> "free", need |-> f.need, bm |-> f.bm, ll |-> f.ll]
        /\ pre' = Snapshot
        /\ freed' = TRUE
        /\ UNCHANGED blocks

\* map_init(); setup(); the handles of the old pool are dead
ResetOp ==
    /\ allocation_map' = map_init(blocks)
    /\ storage' = setup(blocks).storage
    /\ free_start' = setup(blocks).free_start
    /\ files' = {}
    /\ last' = ResetRec
    /\ pre' = Snapshot
    /\ freed' = FALSE
    /\ UNCHANGED blocks

\* ------------------------------------------------------------------------
\* Spec: a pool of Capacity blocks, every request size from -1 to Capacity + 1
\* ------------------------------------------------------------------------

Needs == (-1)..(blocks + 1)

Init == InitPool(Capacity)

Allocate == \E need \in Needs : AllocateOp(need) /\ UNCHANGED log

Free == \E f \in files : FreeOp(f) /\ UNCHANGED log

Reset == ResetOp /\ UNCHANGED log

Next == Allocate \/ Free \/ Reset

Spec == Init /\ [][Next]_vars

\* ------------------------------------------------------------------------
\* ScenarioSpec: the program's pool of BLOCK_COUNT blocks, at most MaxLog
\* calls after each reset, each call appended to the log
\* ------------------------------------------------------------------------

ScenarioInit == InitPool(BLOCK_COUNT)

ScenarioAllocate ==
    /\ Len(log) < MaxLog
    /\ \E need \in ScenarioNeeds : AllocateOp(need) /\ log' = Append(log, last')

ScenarioFree ==
    /\ Len(log) < MaxLog
    /\ \E f \in files : FreeOp(f) /\ log' = Append(log, last')

ScenarioReset == ResetOp /\ log' = <<>>

ScenarioNext == ScenarioAllocate \/ ScenarioFree \/ ScenarioReset

ScenarioSpec == ScenarioInit /\ [][ScenarioNext]_vars

\* ------------------------------------------------------------------------
\* PatternSpec: allocate(need), then free of that allocation, from every
\* free/used pattern of a bitmap of PatternBlocks blocks
\* ------------------------------------------------------------------------

\* The bitmaps of n blocks: the bits past block n - 1 are never set
Patterns(n) ==
    {m \in [0..(MAP_SIZE(n) - 1) -> 0..(2 ^ BITS_IN_BYTE - 1)] :
        \A i \in n..(MAP_SIZE(n) * BITS_IN_BYTE - 1) : check_block_status(m, i) = 0}

PatternInit == \E m \in Patterns(PatternBlocks) : StartPool(PatternBlocks, m)

PatternAllocate ==
    /\ last.op = "reset"
    /\ \E need \in Needs : AllocateOp(need) /\ UNCHANGED log

PatternFree ==
    /\ last.op = "alloc"
    /\ \E f \in files : FreeOp(f) /\ UNCHANGED log

PatternNext == PatternAllocate \/ PatternFree

PatternSpec == PatternInit /\ [][PatternNext]_vars

\* ------------------------------------------------------------------------
\* FreeSpec: free_contiguous(start, cnt) on every free/used pattern of a
\* bitmap of PatternBlocks blocks, for every run inside the pool and every
\* cnt <= 0, followed by the same call once more.  The log keeps the calls.
\* ------------------------------------------------------------------------

\* The arguments tried: 0 <= start, start + cnt <= capacity, cnt from -1
FreeArgs(n) ==
    {a \in (0..n) \X ((-1)..n) : a[1] + a[2] <= n}

\* free_contiguous(start, cnt) on the bitmap alone
FreeRunOp(start, cnt) ==
    /\ allocation_map' = free_contiguous(allocation_map, start, cnt)
    /\ last' = [op |-> "free", need |-> cnt, bm |-> start, ll |-> NO_BLOCK]
    /\ pre' = Snapshot
    /\ freed' = TRUE
    /\ log' = Append(log, last')
    /\ UNCHANGED <<blocks, storage, free_start, files>>

FreeRun ==
    /\ log = <<>>
    /\ \E a \in FreeArgs(blocks) : FreeRunOp(a[1], a[2])

FreeRunAgain ==
    /\ Len(log) = 1
    /\ FreeRunOp(log[1].bm, log[1].need)

FreeNext == FreeRun \/ FreeRunAgain

FreeSpec == PatternInit /\ [][FreeNext]_vars

\* ------------------------------------------------------------------------
\* FragSpec: the fragmentation drivers.  FragFiles files of 1..FragMaxSize
\* blocks are created on a reset pool, FragDeletes of them, chosen by
\* rand() % FragFiles, are deleted, a file of FragBig blocks is tried, and
\* the files that were not chosen are deleted.  The log keeps one record
\* per step: log[i + 1] is the table entry of file i, and the position of
\* the driver is Len(log).  The two drivers draw the same numbers here;
\* neither depends on the other.
\* ------------------------------------------------------------------------

FragInit == InitPool(FragBlocks)

\* A record of the log of the driver: the call, the file index it was made
\* for and whether the linked-list call returned
FragRec(rec, idx, returned) ==
    [op |-> rec.op, need |-> rec.need, bm |-> rec.bm, ll |-> rec.ll,
     idx |-> idx, returned |-> returned]

\* A release_blocks call of the linked-list driver has not returned
ListHung == \E k \in 1..Len(log) : ~log[k].returned

\* release_blocks(begin) walks round a cycle and does not return
WalkLoops(stor, begin) == begin # NO_BLOCK /\ ~WalkEnds(stor, begin)

\* What 1 << bi leaves of byte 0 when bi = -1, which C does not define: no
\* bit is cleared (-1), or one bit of the byte is
ShiftOutcomes == (-1)..(BITS_IN_BYTE - 1)

\* free_contiguous(start, cnt) as the driver calls it, start being -1 for a
\* file that was not created: blk = -1 gives by = 0 and bi = -1, then the
\* loop goes on with blocks 0 .. cnt - 2
free_contiguous_unguarded(map, start, cnt, ub) ==
    IF start # -1 THEN free_contiguous(map, start, cnt)
    ELSE LET first == IF ub = -1 THEN map
                      ELSE [map EXCEPT ![0] = ClearBit(map[0], ub)]
         IN  free_contiguous_loop(first, start, cnt, 1)

\* file_sz[i] = rand() % 5 + 1; file_st[i] = allocate(file_sz[i]);
FragAllocate ==
    /\ Len(log) < FragFiles
    /\ \E need \in 1..FragMaxSize :
           /\ AllocateOp(need)
           /\ log' = Append(log, FragRec(last', Len(log), TRUE))

\* free_idx[i] = rand() % 20; free(file_st[free_idx[i]], ...): no test of
\* the entry
FragRelease ==
    /\ Len(log) >= FragFiles
    /\ Len(log) < FragFiles + FragDeletes
    /\ \E idx \in 0..(FragFiles - 1), ub \in ShiftOutcomes :
           LET e    == log[idx + 1]
               hang == ListHung \/ WalkLoops(storage, e.ll)
               rl   == IF hang THEN ListState ELSE release_blocks(ListState, e.ll)
           IN  /\ allocation_map' =
                      free_contiguous_unguarded(allocation_map, e.bm, e.need, ub)
               /\ storage' = rl.storage
               /\ free_start' = rl.free_start
               /\ files' = files \ {[need |-> e.need, bm |-> e.bm, ll |-> e.ll]}
               /\ last' = [op |-> "free", need |-> e.need, bm |-> e.bm, ll |-> e.ll]
               /\ pre' = Snapshot
               /\ freed' = TRUE
               /\ log' = Append(log, FragRec(last', idx, ~hang))
               /\ UNCHANGED blocks

\* big = allocate(12); if (big != -1) free(big, 12);
FragBigFile ==
    /\ Len(log) = FragFiles + FragDeletes
    /\ LET rb   == allocate_contiguous(allocation_map, FragBig, blocks)
           rl   == IF ListHung
                   THEN [ret |-> NO_BLOCK, storage |-> storage,
                         free_start |-> free_start]
                   ELSE get_blocks(ListState, FragBig)
           got  == [storage |-> rl.storage, free_start |-> rl.free_start]
           hang == ListHung \/ WalkLoops(rl.storage, rl.ret)
           fl   == IF hang THEN got ELSE release_blocks(got, rl.ret)
       IN  /\ allocation_map' = IF rb.ret # -1
                                THEN free_contiguous(rb.map, rb.ret, FragBig)
                                ELSE rb.map
           /\ storage' = fl.storage
           /\ free_start' = fl.free_start
           /\ last' = [op |-> "alloc", need |-> FragBig, bm |-> rb.ret, ll |-> rl.ret]
           /\ pre' = Snapshot
           /\ log' = Append(log, FragRec(last', -1, ~hang))
           /\ UNCHANGED <<blocks, files, freed>>

\* The cleanup loop, one file per step: a file is deleted unless its index
\* was drawn or it was not created
FragCleanup ==
    /\ Len(log) > FragFiles + FragDeletes
    /\ Len(log) <= 2 * FragFiles + FragDeletes
    /\ LET i      == Len(log) - (FragFiles + FragDeletes + 1)
           e      == log[i + 1]
           skip   == \E k \in (FragFiles + 1)..(FragFiles + FragDeletes) :
                         log[k].idx = i
           bmcall == ~skip /\ e.bm # -1
           llcall == ~skip /\ e.ll # NO_BLOCK /\ ~ListHung
           hang   == ListHung \/ (llcall /\ WalkLoops(storage, e.ll))
           rl     == IF llcall /\ ~hang
                     THEN release_blocks(ListState, e.ll) ELSE ListState
       IN  /\ allocation_map' = IF bmcall
                                THEN free_contiguous(allocation_map, e.bm, e.need)
                                ELSE allocation_map
           /\ storage' = rl.storage
           /\ free_start' = rl.free_start
           /\ files' = IF skip THEN files
                       ELSE files \ {[need |-> e.need, bm |-> e.bm, ll |-> e.ll]}
           /\ last' = [op   |-> "cleanup", need |-> e.need,
                       bm   |-> IF bmcall THEN e.bm ELSE -1,
                       ll   |-> IF llcall THEN e.ll ELSE NO_BLOCK]
           /\ pre' = Snapshot
           /\ log' = Append(log, FragRec(last', i, ~hang))
           /\ UNCHANGED <<blocks, freed>>

FragNext == FragAllocate \/ FragRelease \/ FragBigFile \/ FragCleanup

FragSpec == FragInit /\ [][FragNext]_vars

\* ========================================================================
\* Properties
\* ========================================================================

ListFree == FreeBlocks(storage, free_start)

PreListFree == FreeBlocks(pre.storage, pre.free_start)

\* The blocks on the chains of the live linked-list allocations
ListUsed == UNION {ChainBlocks(storage, f.ll) : f \in {g \in files : g.ll # NO_BLOCK}}

\* The start indices s at which blocks [s, s + need) are all free in map
FitStarts(map, need) ==
    {s \in Blocks : s + need <= blocks /\ \A k \in s..(s + need - 1) : k \in MapFree(map)}

\* C1: all-or-nothing allocation, both representations: when allocate(need)
\* with need >= 1 fails, every block has the free/used status it had
\* immediately before the call (bitmap: no bit changed; linked list: the
\* rollback put every taken block back on the free list).
AllOrNothing ==
    (last.op = "alloc" /\ last.need >= 1) =>
        /\ (last.bm = -1 => MapFree(allocation_map) = MapFree(pre.map))
        /\ (last.ll = NO_BLOCK => ListFree = PreListFree)

\* A request of 2..capacity blocks failed in both allocators although each
\* still had free blocks (the list took some and rolled them back).
AllOrNothingWitness ==
    /\ last.op = "alloc" /\ last.need >= 2 /\ last.need <= blocks
    /\ last.bm = -1 /\ last.ll = NO_BLOCK
    /\ MapFree(pre.map) # {}
    /\ pre.free_start # NO_BLOCK

\* C2: round trip, linked list: after a successful allocate(need) with
\* handle h, free(h) called immediately afterwards makes every block that was
\* free before the allocate free again (the set of free blocks is restored).
RoundTripList ==
    (last.op = "alloc" /\ last.ll # NO_BLOCK) =>
        LET r == release_blocks(ListState, last.ll)
        IN  FreeBlocks(r.storage, r.free_start) = PreListFree

\* C3: free(h) of a live handle whose chain is b1 -> ... -> bk splices the
\* whole chain onto the front of the free list: the free head is b1, the
\* tail bk points at the old free head, the free list is b1, ..., bk followed
\* by the old free list, and exactly those k blocks become free; free of the
\* sentinel changes nothing.
SpliceWholeChain ==
    (last.op = "free") =>
        IF last.ll = NO_BLOCK
        THEN storage = pre.storage /\ free_start = pre.free_start
        ELSE LET chain == ChainSeq(pre.storage, last.ll, blocks + 1)
                 F     == FreeSeq(pre.storage, pre.free_start)
                 k     == Len(chain)
             IN  /\ k >= 1
                 /\ free_start = chain[1]
                 /\ storage[chain[k]] = pre.free_start
                 /\ FreeSeq(storage, free_start) = chain \o F
                 /\ ListFree \ PreListFree = Range(chain)

\* C4: conservation: every block is in exactly one of the two states, free
\* (bitmap bit 0; on the free list) or used (bitmap bit 1; on the chain of a
\* live allocation), so free + used = capacity; once every live allocation
\* has been freed all blocks are free.
Conservation ==
    /\ MapFree(allocation_map) \cap MapUsed(allocation_map) = {}
    /\ Cardinality(MapFree(allocation_map)) + Cardinality(MapUsed(allocation_map)) = blocks
    /\ ListFree \cap ListUsed = {}
    /\ Cardinality(ListFree) + Cardinality(ListUsed) = blocks
    /\ (files = {} => ListFree = Blocks /\ MapFree(allocation_map) = Blocks)

\* C5: no overlap: any two allocations that are live at the same time occupy
\* disjoint sets of blocks (bitmap: the intervals [start, start + need);
\* linked list: the blocks on the two chains).
NoOverlap ==
    \A f, g \in files :
        f # g =>
            /\ (f.bm # -1 /\ g.bm # -1) =>
                   (f.bm..(f.bm + f.need - 1)) \cap (g.bm..(g.bm + g.need - 1)) = {}
            /\ (f.ll # NO_BLOCK /\ g.ll # NO_BLOCK) =>
                   ChainBlocks(storage, f.ll) \cap ChainBlocks(storage, g.ll) = {}

\* Two allocations are live in both allocators, one of them of two blocks or
\* more, after blocks have been freed and handed out again.
NoOverlapWitness ==
    /\ freed
    /\ \E f, g \in files :
           /\ f # g /\ f.need >= 2
           /\ f.bm # -1 /\ g.bm # -1 /\ f.ll # NO_BLOCK /\ g.ll # NO_BLOCK

\* C6: first fit (bitmap): for 1 <= need <= capacity, allocate(need) succeeds
\* exactly when some s has blocks [s, s + need) all free, and then it returns
\* the lowest such s.
FirstFit ==
    (last.op = "alloc" /\ last.need >= 1 /\ last.need <= blocks) =>
        LET starts == FitStarts(pre.map, last.need)
        IN  /\ (last.bm # -1) <=> (starts # {})
            /\ (last.bm # -1) =>
                   (last.bm \in starts /\ \A t \in starts : last.bm <= t)

\* The scan passed a free hole that was too small and took the first of
\* several runs that fit.
FirstFitWitness ==
    /\ last.op = "alloc" /\ last.need >= 2 /\ last.bm >= 2
    /\ 0 \in MapFree(pre.map)
    /\ \E t \in FitStarts(pre.map, last.need) : t > last.bm + last.need

\* The calls of the concrete scenario, as far as the log has got
ScenarioCalls(k) ==
    /\ Len(log) >= k
    /\ (k >= 1 => log[1].op = "alloc" /\ log[1].need = 12)
    /\ (k >= 2 => log[2].op = "alloc" /\ log[2].need = 5)
    /\ (k >= 3 => log[3].op = "free" /\ log[3].bm = 0 /\ log[3].need = 12)
    /\ (k >= 4 => log[4].op = "alloc" /\ log[4].need = 20)

\* C7 as stated: on the fully free pool of 64 blocks allocate(12) returns 0,
\* then allocate(5) returns 12, then after free(0, 12) allocate(20) returns 0.
ScenarioAsStated ==
    /\ ScenarioCalls(1) => log[1].bm = 0
    /\ ScenarioCalls(2) => log[2].bm = 12
    /\ ScenarioCalls(4) => log[4].bm = 0

\* C7 (amended): on the fully free pool of 64 blocks allocate(12) returns 0,
\* then allocate(5) returns 12, then after free(0, 12) allocate(20) returns
\* 17: the 12 freed blocks are too few, and the first run of 20 free blocks
\* starts after the 5 blocks that are still used.
ScenarioFirstFit ==
    /\ ScenarioCalls(1) => log[1].bm = 0
    /\ ScenarioCalls(2) => log[2].bm = 12
    /\ ScenarioCalls(4) => log[4].bm = 17

\* The four calls of the scenario have been made, the 64-block bitmap
\* holding blocks 12..16 and 17..36.
ScenarioWitness ==
    /\ blocks = BLOCK_COUNT
    /\ ScenarioCalls(4) /\ Len(log) = 4
    /\ MapUsed(allocation_map) = 12..36

\* C8 as stated: under every sequence of reset, allocate and free calls made
\* to both allocators, each allocate succeeds in one exactly when it succeeds
\* in the other and the number of free blocks is the same after every step.
Equivalence ==
    /\ Cardinality(MapFree(allocation_map)) = Cardinality(ListFree)
    /\ (last.op = "alloc") => ((last.bm = -1) <=> (last.ll = NO_BLOCK))

\* C8 (amended): the same, for the sequences of reset and allocate calls in
\* which no free call was made since the last reset.
EquivalenceUntilFree == (~freed) => Equivalence

\* With no free since the reset, a request of 1..capacity blocks failed in
\* both allocators after earlier requests had succeeded in both.
EquivalenceWitness ==
    /\ ~freed
    /\ last.op = "alloc" /\ last.need >= 1 /\ last.need <= blocks
    /\ last.bm = -1 /\ last.ll = NO_BLOCK
    /\ \E f \in files : f.bm # -1 /\ f.ll # NO_BLOCK

\* C9: round trip, bitmap: after a successful allocate(need) with start s,
\* free(s, need) called immediately afterwards restores the bit-vector to
\* exactly its value before the allocate.
RoundTripBitmap ==
    (last.op = "alloc" /\ last.bm # -1) =>
        free_contiguous(allocation_map, last.bm, last.need) = pre.map

\* A run that spans the two bytes of the map was allocated in a bitmap that
\* already held used blocks.
RoundTripBitmapWitness ==
    /\ last.op = "alloc" /\ last.bm # -1
    /\ last.bm > 0 /\ last.bm < BITS_IN_BYTE /\ last.bm + last.need > BITS_IN_BYTE
    /\ MapUsed(pre.map) # {}
    /\ allocation_map # pre.map

FreshPool(snap) ==
    /\ snap.map = map_init(blocks)
    /\ snap.storage = setup(blocks).storage
    /\ snap.free_start = setup(blocks).free_start

\* C10: exhaustion boundary, both representations: on a freshly reset pool
\* allocate(capacity) succeeds and returns handle 0, and the allocate(1)
\* that follows it fails with no block changing status.
ExhaustionStep ==
    /\ (last.op = "reset" /\ last'.op = "alloc" /\ last'.need = blocks) =>
           (last'.bm = 0 /\ last'.ll = 0)
    /\ (/\ last.op = "alloc" /\ last.need = blocks /\ FreshPool(pre)
        /\ last'.op = "alloc" /\ last'.need = 1) =>
           /\ last'.bm = -1 /\ last'.ll = NO_BLOCK
           /\ MapFree(allocation_map') = MapFree(allocation_map)
           /\ FreeBlocks(storage', free_start') = ListFree

ExhaustionBoundary == [][ExhaustionStep]_vars

\* allocate(1) has just failed in both allocators on a pool whose blocks are
\* all held by the one allocation with handle 0 made since the reset.
ExhaustionWitness ==
    /\ last.op = "alloc" /\ last.need = 1
    /\ last.bm = -1 /\ last.ll = NO_BLOCK
    /\ ~freed
    /\ files = {[need |-> blocks, bm |-> 0, ll |-> 0]}
    /\ MapFree(pre.map) = {} /\ pre.free_start = NO_BLOCK

\* The blocks [s, s + need) of the last allocate_contiguous call
AllocateRun == last.bm..(last.bm + last.need - 1)

\* C11: bitmap allocate effect: when allocate(need) succeeds with start s,
\* the blocks [s, s + need) were all free before the call and are all used
\* after it, s + need <= capacity, and every block outside the run has the
\* bit it had before the call.
AllocateEffect ==
    (last.op = "alloc" /\ last.bm # -1) =>
        /\ last.need >= 1
        /\ last.bm >= 0 /\ last.bm + last.need <= blocks
        /\ AllocateRun \subseteq MapFree(pre.map)
        /\ AllocateRun \subseteq MapUsed(allocation_map)
        /\ \A i \in Blocks \ AllocateRun :
               check_block_status(allocation_map, i) = check_block_status(pre.map, i)

\* A run of two or more blocks was taken between blocks that were in use.
AllocateEffectWitness ==
    /\ last.op = "alloc" /\ last.bm > 0 /\ last.need >= 2
    /\ last.bm + last.need < blocks
    /\ (last.bm - 1) \in MapUsed(pre.map)
    /\ (last.bm + last.need) \in MapUsed(pre.map)
    /\ MapFree(allocation_map) # {}

\* The free list immediately before the last call, in list order
PreFreeSeq == FreeSeq(pre.storage, pre.free_start)

\* C12: linked-list allocate effect: when allocate(need) succeeds on the free
\* list f1, ..., fn, n >= need, the handle is f1, the chain of the handle is
\* f1 -> ... -> f_need -> sentinel in free-list order, and the free list
\* after the call is f_(need+1), ..., fn.
ListAllocateEffect ==
    (last.op = "alloc" /\ last.ll # NO_BLOCK) =>
        /\ last.need >= 1
        /\ Len(PreFreeSeq) >= last.need
        /\ last.ll = PreFreeSeq[1]
        /\ ChainSeq(storage, last.ll, blocks + 1) = SubSeq(PreFreeSeq, 1, last.need)
        /\ FreeSeq(storage, free_start) =
               SubSeq(PreFreeSeq, last.need + 1, Len(PreFreeSeq))

\* After frees had reordered the free list, a chain of two blocks whose
\* second block has the lower index was taken and a block stayed free.
ListAllocateEffectWitness ==
    /\ last.op = "alloc" /\ last.ll # NO_BLOCK /\ last.need = 2
    /\ freed
    /\ storage[last.ll] # NO_BLOCK /\ storage[last.ll] < last.ll
    /\ free_start # NO_BLOCK

\* C13: invalid requests: allocate(need) with need <= 0 fails in both
\* allocators and the bitmap allocate(need) with need > capacity fails; the
\* failing call leaves every bit, the free head and every next pointer as
\* they were before it.
InvalidRequests ==
    (last.op = "alloc") =>
        /\ (last.need <= 0 =>
                last.bm = -1 /\ last.ll = NO_BLOCK /\ Snapshot = pre)
        /\ (last.need > blocks =>
                last.bm = -1 /\ allocation_map = pre.map)

\* A request for -1 blocks was refused by both allocators on a pool with
\* live allocations and free blocks.
InvalidRequestsWitness ==
    /\ last.op = "alloc" /\ last.need < 0
    /\ files # {} /\ free_start # NO_BLOCK /\ MapFree(allocation_map) # {}

\* C14: reset from any state makes every block free: every byte of the
\* bitmap is 0, the free head is 0 and the free list is the ascending chain
\* 0 -> 1 -> ... -> capacity - 1 -> sentinel; no allocation is live.
ResetEffect ==
    (last.op = "reset") =>
        /\ \A by \in DOMAIN allocation_map : allocation_map[by] = 0
        /\ MapFree(allocation_map) = Blocks
        /\ free_start = 0
        /\ FreeSeq(storage, free_start) = [k \in 1..blocks |-> k - 1]
        /\ \A i \in Blocks :
               storage[i] = IF i = blocks - 1 THEN NO_BLOCK ELSE i + 1

\* The reset was made on a pool with blocks in use in both allocators and a
\* free list that did not start at block 0.
ResetEffectWitness ==
    /\ last.op = "reset"
    /\ MapUsed(pre.map) # {}
    /\ pre.free_start # 0
    /\ Cardinality(FreeBlocks(pre.storage, pre.free_start)) < blocks

\* C15: termination: under any sequence of reset, allocate and free of a
\* live handle, the walk of the free list and the walk of the chain of every
\* live allocation reach the sentinel within capacity steps, so allocate,
\* free and the dumps of both allocators run to completion.
Termination ==
    /\ WalkEnds(storage, free_start)
    /\ \A f \in files : f.ll # NO_BLOCK => WalkEnds(storage, f.ll)
    /\ show_map(allocation_map, blocks) \in [Blocks -> {0, 1}]
    /\ display_state(storage, free_start, blocks) \in [Blocks -> {0, 1}]

\* A chain of two or more blocks was released while another allocation was
\* live, and the free list is not empty.
TerminationWitness ==
    /\ last.op = "free" /\ last.ll # NO_BLOCK /\ last.need >= 2
    /\ \E f \in files : f.ll # NO_BLOCK
    /\ free_start # NO_BLOCK

\* The sum of the sizes of the first k calls of the log
RECURSIVE LogSum(_)
LogSum(k) == IF k = 0 THEN 0 ELSE LogSum(k - 1) + log[k].need

\* Every call since the reset was an allocate
AllocationOnly == \A k \in 1..Len(log) : log[k].op = "alloc"

\* C16: allocation-only trace: on a freshly reset pool, after allocate calls
\* of sizes n1, n2, ... >= 1 with total <= capacity and no free, every call
\* succeeded in both allocators, the k-th call returned n1 + ... + n(k-1),
\* the used blocks are exactly [0, total) in both, and the dump of the
\* bitmap equals the dump of the linked list.
AllocationTrace ==
    (AllocationOnly /\ LogSum(Len(log)) <= blocks) =>
        /\ \A k \in 1..Len(log) :
               /\ log[k].need >= 1
               /\ log[k].bm = LogSum(k - 1)
               /\ log[k].ll = LogSum(k - 1)
        /\ MapUsed(allocation_map) = 0..(LogSum(Len(log)) - 1)
        /\ Blocks \ ListFree = 0..(LogSum(Len(log)) - 1)
        /\ ListUsed = 0..(LogSum(Len(log)) - 1)
        /\ show_map(allocation_map, blocks) =
               display_state(storage, free_start, blocks)

\* Three or more allocations of different sizes were made on the 64-block
\* pool since the reset, and they fit.
AllocationTraceWitness ==
    /\ blocks = BLOCK_COUNT
    /\ Len(log) >= 3 /\ AllocationOnly
    /\ log[1].need # log[2].need /\ log[2].need # log[3].need
    /\ LogSum(Len(log)) <= blocks

\* C18: the linked-list allocate needs no contiguity: for need >= 1,
\* allocate(need) succeeds if and only if at least need blocks were on the
\* free list before the call, whatever their indices.
ListSucceedsIff ==
    (last.op = "alloc" /\ last.need >= 1) =>
        ((last.ll # NO_BLOCK) <=> (Len(PreFreeSeq) >= last.need))

\* Two free blocks that are not neighbours served a request for two blocks
\* that the bitmap refused.
ListSucceedsIffWitness ==
    /\ last.op = "alloc" /\ last.need = 2
    /\ last.ll # NO_BLOCK /\ last.bm = -1
    /\ PreListFree = {0, 2}

\* The effect of one get_one_block call between two states
PopsHead ==
    IF free_start = NO_BLOCK
    THEN /\ last'.ll = NO_BLOCK
         /\ storage' = storage
         /\ free_start' = free_start
    ELSE /\ last'.ll = free_start
         /\ storage' = [storage EXCEPT ![free_start] = NO_BLOCK]
         /\ free_start' = storage[free_start]

\* C19: LIFO reuse in the linked list: a request for one block returns the
\* free head, sets its nxt to the sentinel and moves the free head to its
\* former successor, or returns the sentinel with nothing changed when the
\* free list is empty; and the successful allocate that immediately follows
\* free(h) of a live handle h returns h.
LifoStep ==
    /\ (last'.op = "alloc" /\ last'.need = 1) => PopsHead
    /\ (/\ last.op = "free" /\ last.ll # NO_BLOCK
        /\ last'.op = "alloc" /\ last'.ll # NO_BLOCK) =>
           last'.ll = last.ll

LifoReuse == [][LifoStep]_vars

\* After a free, an allocate returned the free head of the moment, a block
\* with a lower index than the head of another live chain.
LifoReuseWitness ==
    /\ last.op = "alloc" /\ last.ll # NO_BLOCK
    /\ freed
    /\ last.ll = pre.free_start
    /\ pre.storage[last.ll] # last.ll + 1
    /\ \E f \in files : f.ll # NO_BLOCK /\ f.ll > last.ll

\* No block occurs twice in the sequence
NoRepeat(s) == \A i, j \in 1..Len(s) : i # j => s[i] # s[j]

\* C20: structural invariant of the linked list: the free list is acyclic,
\* ends at the sentinel and visits no block twice; the chain of every live
\* allocation is acyclic, ends at the sentinel and has exactly the number of
\* blocks requested for it.
ListStructure ==
    /\ WalkEnds(storage, free_start)
    /\ NoRepeat(FreeSeq(storage, free_start))
    /\ \A f \in files :
           f.ll # NO_BLOCK =>
               LET chain == ChainSeq(storage, f.ll, blocks + 1)
               IN  /\ Len(chain) = f.need
                   /\ NoRepeat(chain)
                   /\ storage[chain[Len(chain)]] = NO_BLOCK

\* After frees, a chain of two blocks that are not in ascending order is
\* live and the free list is not empty.
ListStructureWitness ==
    /\ freed
    /\ free_start # NO_BLOCK
    /\ \E f \in files :
           /\ f.ll # NO_BLOCK /\ f.need = 2
           /\ storage[f.ll] # NO_BLOCK /\ storage[f.ll] < f.ll

\* The calls of the deletion loop of the fragmentation drivers
FragDeleteCalls == {k \in 1..Len(log) : log[k].op = "free"}

\* C17: the fragmentation drivers respect the precondition of free: for
\* every outcome of the draws, each free call of the deletion loop is passed
\* the handle of a file whose allocation succeeded and which no earlier call
\* freed, and the cleanup loop frees no file that was freed before.
FragFreesLive ==
    /\ \A k \in FragDeleteCalls :
           /\ log[k].bm # -1
           /\ log[k].ll # NO_BLOCK
           /\ \A j \in FragDeleteCalls : j < k => log[j].idx # log[k].idx
    /\ \A k \in 1..Len(log) :
           (log[k].op = "cleanup" /\ (log[k].bm # -1 \/ log[k].ll # NO_BLOCK)) =>
               \A j \in FragDeleteCalls : log[j].idx # log[k].idx

\* The sequence s in reverse order
Reverse(s) == [k \in 1..Len(s) |-> s[Len(s) + 1 - k]]

\* C21: rollback order of the linked list: when allocate(need) fails after
\* taking the n blocks f1, ..., fn of the whole free list, 0 <= n < need,
\* the free list after the call is fn, ..., f1, the same blocks in reverse
\* order, ending at the sentinel, and no block off the free list has a
\* changed next pointer.
RollbackOrder ==
    (last.op = "alloc" /\ last.need >= 1 /\ last.ll = NO_BLOCK) =>
        /\ Len(PreFreeSeq) < last.need
        /\ FreeSeq(storage, free_start) = Reverse(PreFreeSeq)
        /\ WalkEnds(storage, free_start)
        /\ \A b \in Blocks \ PreListFree : storage[b] = pre.storage[b]

\* A request failed after taking the two blocks of a free list that frees
\* had put in descending order, while another allocation was live.
RollbackOrderWitness ==
    /\ last.op = "alloc" /\ last.ll = NO_BLOCK /\ last.need >= 3
    /\ Len(PreFreeSeq) = 2 /\ PreFreeSeq[1] > PreFreeSeq[2]
    /\ free_start # pre.free_start
    /\ \E f \in files : f.ll # NO_BLOCK

\* The blocks [start, start + cnt) of the last free_contiguous call
FreedRun == last.bm..(last.bm + last.need - 1)

\* C22: bitmap free frame and idempotence: for 0 <= start and
\* start + count <= capacity, free(start, count) makes exactly the blocks of
\* [start, start + count) free whatever they were, and changes no other
\* bit; with count <= 0 it changes nothing; and the same call made a second
\* time changes nothing.
FreeFrame ==
    (last.op = "free") =>
        /\ MapFree(allocation_map) = MapFree(pre.map) \cup FreedRun
        /\ \A i \in 0..(MAP_SIZE(blocks) * BITS_IN_BYTE - 1) :
               i \notin FreedRun =>
                   check_block_status(allocation_map, i) =
                       check_block_status(pre.map, i)
        /\ (last.need <= 0 => allocation_map = pre.map)
        /\ (Len(log) = 2 => allocation_map = pre.map)

\* A run of two or more blocks between two used blocks was freed and then
\* freed once more.
FreeFrameWitness ==
    /\ Len(log) = 2 /\ log[1] = log[2]
    /\ last.need >= 2 /\ last.bm > 0 /\ last.bm + last.need < blocks
    /\ (last.bm - 1) \in MapUsed(allocation_map)
    /\ (last.bm + last.need) \in MapUsed(allocation_map)
    /\ FreedRun \subseteq MapFree(allocation_map)

\* The live linked-list allocations other than the one the last call made
OtherLive ==
    {f \in files : f.ll # NO_BLOCK /\ ~(last.op = "alloc" /\ f.ll = last.ll)}

\* C23: linked-list frame: an allocate call, successful or rolled back, and
\* a free call on a live handle change the next pointer of no block on the
\* chain of a different live allocation: every other live allocation has
\* the handle and the chain it had before the call.
ListFrame ==
    \A f \in OtherLive :
        /\ ChainSeq(storage, f.ll, blocks + 1) = ChainSeq(pre.storage, f.ll, blocks + 1)
        /\ \A b \in ChainBlocks(pre.storage, f.ll) : storage[b] = pre.storage[b]

\* A request was rolled back after taking a block, next to a live chain of
\* two blocks.
ListFrameWitness ==
    /\ last.op = "alloc" /\ last.need >= 2 /\ last.ll = NO_BLOCK
    /\ pre.free_start # NO_BLOCK
    /\ \E f \in OtherLive : f.need = 2

\* The live bitmap allocations
BitmapLive == {f \in files : f.bm # -1}

\* The sum of the sizes of a set of allocations
RECURSIVE SumNeeds(_)
SumNeeds(S) ==
    IF S = {} THEN 0
    ELSE LET f == CHOOSE g \in S : TRUE
         IN  f.need + SumNeeds(S \ {f})

\* C24: bitmap accounting invariant: after any sequence of reset, allocate
\* (successful or failed) and free(start, need) of live allocations with
\* their own size, the blocks whose bit is 1 are exactly the union of the
\* intervals [start, start + need) of the live allocations, and their
\* number is the sum of the live sizes.
BitmapAccounting ==
    /\ MapUsed(allocation_map) = UNION {f.bm..(f.bm + f.need - 1) : f \in BitmapLive}
    /\ Cardinality(MapUsed(allocation_map)) = SumNeeds(BitmapLive)

\* After a free and a failed request, two allocations are live with a free
\* block between them.
BitmapAccountingWitness ==
    /\ freed
    /\ last.op = "alloc" /\ last.bm = -1 /\ last.need >= 1
    /\ Cardinality(BitmapLive) = 2
    /\ \E i \in MapFree(allocation_map) :
           (i - 1) \in MapUsed(allocation_map) /\ (i + 1) \in MapUsed(allocation_map)

====
